---- MODULE Spec2Model ----
(***************************************************************************)
(* The benchmark runner of nuremageris (bench/runner: main, runCase,       *)
(* computeStats, percentile, toCsv) together with the case registry        *)
(* (bench/cases: cases, caseMap) as a state machine.                       *)
(*                                                                         *)
(* main() is one asynchronous control flow.  pc is its position; a value   *)
(* "await..." is a suspension point at which one adapter operation is in   *)
(* flight, and the action that leaves it is the settling of that           *)
(* operation (resolve or reject, chosen by the environment) followed by    *)
(* the synchronous code up to the next loop head.                          *)
(***************************************************************************)
EXTENDS Integers, Sequences, FiniteSets, TLC

(***************************************************************************)
(* Bounds of the model.                                                    *)
(***************************************************************************)
MaxAdapters == 2
MaxCases == 2
MaxWarmup == 1
MaxIterations == 2
MaxDuration == 1
\* Invocations of the measured operation in one process run: the number of
\* (adapter, case) pairs times (warmup + iterations).
MaxCalls == 4
\* The sample sequences the statistics are checked on: every sequence of at
\* most MaxSampleLen durations in 0..MaxSampleValue, and the ramps
\* step, 2*step, ..., n*step (ascending and descending) for n <= MaxRamp.
MaxSampleLen == 4
MaxSampleValue == 3
MaxRamp == 100
\* The lifecycle-call budget of the runs in which a call may never settle.
MaxHangCalls == 2
\* createOrderWithItems: the most items of an order, and the most orders
\* (each with one item and one payment) the tables hold before the call.
MaxItems == 2
MaxOrders == 1

(***************************************************************************)
(* Adapter registry (runner, lines 17-29).                                 *)
(***************************************************************************)
ADAPTER_NAMES == <<"raw", "knex", "dal", "orm">>

\* ADAPTER_NAMES.includes(a)
AdapterIncludes(a) == \E k \in 1..Len(ADAPTER_NAMES) : ADAPTER_NAMES[k] = a

(***************************************************************************)
(* Case registry (bench/cases).  A BenchCase has a name, an optional       *)
(* setup, a required run and an optional teardown.  The registry is        *)
(* represented by one case of each shape the BenchCase interface allows:   *)
(* "findUserById" (setup only) and "findUserByEmail" (neither) are as in   *)
(* the source; "withTeardown" stands for a case that defines setup and     *)
(* teardown (the interface's third shape; none of the shipped cases        *)
(* defines a teardown).                                                    *)
(***************************************************************************)
cases ==
  << [name |-> "findUserById",    setup |-> TRUE,  run |-> TRUE, teardown |-> FALSE],
     [name |-> "findUserByEmail", setup |-> FALSE, run |-> TRUE, teardown |-> FALSE],
     [name |-> "withTeardown",    setup |-> TRUE,  run |-> TRUE, teardown |-> TRUE] >>

\* cases.map(c => c.name)
CaseNamesOf(cs) == [k \in 1..Len(cs) |-> cs[k].name]

RegisteredNames == {cases[k].name : k \in 1..Len(cases)}

\* The value JavaScript yields for a property that is absent.
undefined == [name |-> "undefined", setup |-> FALSE, run |-> FALSE, teardown |-> FALSE]

\* Property names every plain object inherits from Object.prototype; the
\* model carries two of them.
ObjectPrototypeKeys == {"toString", "constructor"}

\* The inherited member caseMap[key] evaluates to for such a key: a function
\* object that has no setup, run or teardown property.
PrototypeMember(key) == [name |-> key, setup |-> FALSE, run |-> FALSE, teardown |-> FALSE]

\* caseMap = Object.fromEntries(cases.map(c => [c.name, c])): a plain object.
\* A property read finds the own entry (the last one of that name), else the
\* member inherited from Object.prototype, else undefined.
caseMap(key) ==
  IF key \in RegisteredNames
  THEN cases[CHOOSE k \in 1..Len(cases) :
               /\ cases[k].name = key
               /\ \A m \in (k+1)..Len(cases) : cases[m].name # key]
  ELSE IF key \in ObjectPrototypeKeys THEN PrototypeMember(key)
  ELSE undefined

\* JavaScript truthiness of a value read from caseMap.
Truthy(v) == v # undefined

(***************************************************************************)
(* Stats helpers (runner, lines 50-67).  A duration is a whole number of   *)
(* clock units; the mean, a quotient of two numbers, is kept as the pair   *)
(* (num, den), so that 0/0 (NaN) is den = 0.                               *)
(***************************************************************************)
\* timings.reduce((s, v) => s + v, 0); the addition of whole numbers is
\* associative, so the sum is taken by halves.
RECURSIVE Sum(_)
Sum(s) ==
  IF s = <<>> THEN 0
  ELSE IF Len(s) = 1 THEN s[1]
  ELSE LET h == Len(s) \div 2
       IN Sum(SubSeq(s, 1, h)) + Sum(SubSeq(s, h + 1, Len(s)))

\* The ascending merge of the ascending sequences a and b: a[i] lands after
\* the i - 1 elements of a before it and the elements of b smaller than it,
\* and the elements of b fill the remaining places in their order.
Merge(a, b) ==
  LET posA(i) == i + Cardinality({j \in 1..Len(b) : b[j] < a[i]})
  IN [k \in 1..(Len(a) + Len(b)) |->
        IF \E i \in 1..Len(a) : posA(i) = k
        THEN a[CHOOSE i \in 1..Len(a) : posA(i) = k]
        ELSE b[k - Cardinality({i \in 1..Len(a) : posA(i) < k})]]

\* [...timings].sort((a, b) => a - b)
RECURSIVE Sorted(_)
Sorted(s) ==
  IF Len(s) <= 1 THEN s
  ELSE LET h == Len(s) \div 2
       IN Merge(Sorted(SubSeq(s, 1, h)), Sorted(SubSeq(s, h + 1, Len(s))))

Max(a, b) == IF a >= b THEN a ELSE b

\* Math.ceil(a / b) for a >= 0, b > 0
CeilDiv(a, b) == (a + b - 1) \div b

\* A percentile that rounds the rank down instead of up.
percentileFloor(sorted, p) ==
  IF Len(sorted) = 0 THEN 0
  ELSE LET idx == ((p * Len(sorted)) \div 100) - 1
       IN  sorted[Max(0, idx) + 1]

\* percentile(sorted, p); sequences are 1-based here, the code's index idx
\* is element idx + 1.  The code computes Math.ceil((p / 100) * length) in
\* binary floating point; for p in {50, 95, 99} the doubles 0.5, 0.95 and
\* 0.99 are at most the exact quotient and within 0.42 ulp of it, so the
\* product rounds to the exact integer when p * length / 100 is one, and
\* the ceiling is the exact one for every length a run can have.
percentile(sorted, p) ==
  IF Len(sorted) = 0 THEN 0
  ELSE LET idx == CeilDiv(p * Len(sorted), 100) - 1
       IN  sorted[Max(0, idx) + 1]

\* Statistics read from the samples as recorded, without sorting them.
computeStatsUnsorted(ts) ==
  [ mean |-> [num |-> Sum(ts), den |-> Len(ts)],
    p50  |-> percentile(ts, 50),
    p95  |-> percentile(ts, 95),
    p99  |-> percentile(ts, 99),
    min  |-> IF Len(ts) = 0 THEN 0 ELSE ts[1],
    max  |-> IF Len(ts) = 0 THEN 0 ELSE ts[Len(ts)] ]

\* Statistics whose mean is cut to a whole number of clock units.
computeStatsTruncatedMean(ts) ==
  LET sorted == Sorted(ts)
  IN  [ mean |-> IF Len(ts) = 0 THEN [num |-> 0, den |-> 0]
                 ELSE [num |-> Sum(ts) \div Len(ts), den |-> 1],
        p50  |-> percentile(sorted, 50),
        p95  |-> percentile(sorted, 95),
        p99  |-> percentile(sorted, 99),
        min  |-> IF Len(sorted) = 0 THEN 0 ELSE sorted[1],
        max  |-> IF Len(sorted) = 0 THEN 0 ELSE sorted[Len(sorted)] ]

\* computeStats(timings) (lines 56-67).
computeStats(ts) ==
  LET sorted == Sorted(ts)
  IN  [ mean |-> [num |-> Sum(ts), den |-> Len(ts)],
        p50  |-> percentile(sorted, 50),
        p95  |-> percentile(sorted, 95),
        p99  |-> percentile(sorted, 99),
        min  |-> IF Len(sorted) = 0 THEN 0 ELSE sorted[1],
        max  |-> IF Len(sorted) = 0 THEN 0 ELSE sorted[Len(sorted)] ]

IsNaN(m) == m.den = 0

\* An in-place sort: timings.sort(...) instead of [...timings].sort(...).
ArrayAfterStatsInPlace(ts) == Sorted(ts)

\* The array passed to computeStats as the call leaves it: line 57 sorts a
\* copy ([...timings]), and reduce (line 58) only reads.
ArrayAfterStats(ts) == ts

(***************************************************************************)
(* The state.                                                              *)
(***************************************************************************)
VARIABLES
  adapterNames,  \* main: the requested adapter names, in order
  caseNames,     \* main: the requested case names, in order
  warmup,        \* main: Number(opts.warmup)
  iterations,    \* main: Number(opts.iterations)
  pc,            \* position of main / runCase
  ai,            \* index of the adapter loop (1-based)
  ci,            \* index of the case loop (1-based)
  i,             \* runCase: the loop counter of the warmup / measure loop
  timings,       \* runCase: timings
  errors,        \* runCase: errors
  err,           \* the exception in flight: "none" or where it was raised
  allResults,    \* main: allResults
  instances,     \* the adapter instances constructed so far, with their close() calls
  outDirMade,    \* fs.mkdirSync(outDir) has succeeded
  jsonFile,      \* the results_<ts>.json artifact: its status and its content
  csvFile,       \* the summary_<ts>.csv artifact: its status and its content
  exitCode,      \* "running", or the process's completion status
  calls,         \* history: lifecycle calls issued in the current runCase
  failed,        \* history: measured invocations of the current runCase that failed
  warmFailed,    \* history: warmup invocations of the current runCase that failed
  opsTotal,      \* history: lifecycle calls issued since the process started
  ctx,           \* runCase: the CaseContext object, its identity and its entries
  inFlight,      \* adapter operations called and not yet settled
  hung,          \* the operation awaited is one that never settles
  tx             \* RawSqlAdapter.createOrderWithItems: one call and the database

vars == << adapterNames, caseNames, warmup, iterations, pc, ai, ci, i, timings,
           errors, err, allResults, instances, outDirMade, jsonFile, csvFile,
           exitCode, calls, failed, warmFailed, opsTotal, ctx, inFlight, hung,
           tx >>

\* The state of the bench runner: everything but the adapter call.
runner == << adapterNames, caseNames, warmup, iterations, pc, ai, ci, i, timings,
             errors, err, allResults, instances, outDirMade, jsonFile, csvFile,
             exitCode, calls, failed, warmFailed, opsTotal, ctx, inFlight, hung >>

opts == << adapterNames, caseNames, warmup, iterations >>

\* A CaseContext: the identity of the object (the n-th one created by this
\* process) and the entries written to it.  Before the first runCase there
\* is none.
NoContext == [id |-> 0, store |-> {}]

\* One context object at module level, used by every run.
SharedContext(prev) == prev

\* Line 83: const ctx: CaseContext = {} creates a new, empty object.
FreshContext(prev) == [id |-> prev.id + 1, store |-> {}]

\* What the setup of a case writes to its context: findUserById sets
\* ctx.userId = 500 (cases/index.ts, line 33).
SetupWrites(name) ==
  IF name = "findUserById" THEN {<<"userId", 500>>} ELSE {}

\* An await raced against a timer, which goes on without the operation.
AwaitWithTimeout == TRUE

\* await without a timer: the code after an await runs only when the
\* awaited promise has settled.
AwaitNeedsSettlement == ~hung

\* Row counts of the tables orders, order_items and payments.
Rows(o, it, pay) == [orders |-> o, items |-> it, payments |-> pay]

\* No call of createOrderWithItems is under way.
NoTx ==
  [ pc        |-> "idle",
    items     |-> 0,
    before    |-> Rows(0, 0, 0),
    committed |-> Rows(0, 0, 0),
    staged    |-> Rows(0, 0, 0),
    acquired  |-> FALSE,
    releases  |-> 0,
    sent      |-> <<>>,
    error     |-> "none" ]

\* An artifact on disk: absent, complete (holding what writeFileSync was
\* given), or partial (what a failed write left behind).
NoFile == [status |-> "absent", content |-> <<>>]
WrittenFile(c) == [status |-> "complete", content |-> c]
FailedFile(left) == [status |-> left, content |-> <<>>]

NoCalls == [setup |-> 0, warmup |-> 0, run |-> 0, teardown |-> 0]

\* The names a command line may carry: registered ones, an unregistered one,
\* and for cases a name that Object.prototype defines.
AdapterArgs == {"raw", "knex", "mysql"}
CaseArgs == RegisteredNames \cup {"toString", "nope"}

SeqsUpTo(S, n) == UNION {[1..k -> S] : k \in 1..n}

Durations == 0..MaxDuration

\* The state when main() is entered, after commander has parsed the options
\* (lines 151-166).  opts.case may be absent: then every registered case runs.
Init ==
  /\ adapterNames \in SeqsUpTo(AdapterArgs, MaxAdapters)
  /\ caseNames \in SeqsUpTo(CaseArgs, MaxCases) \cup {CaseNamesOf(cases)}
  /\ warmup \in 0..MaxWarmup
  /\ iterations \in 0..MaxIterations
  /\ Len(adapterNames) * Len(caseNames) * (warmup + iterations) <= MaxCalls
  /\ pc = "validate"
  /\ ai = 0
  /\ ci = 0
  /\ i = 0
  /\ timings = <<>>
  /\ errors = 0
  /\ err = "none"
  /\ allResults = <<>>
  /\ instances = <<>>
  /\ outDirMade = FALSE
  /\ jsonFile = NoFile
  /\ csvFile = NoFile
  /\ exitCode = "running"
  /\ calls = NoCalls
  /\ failed = 0
  /\ warmFailed = 0
  /\ opsTotal = 0
  /\ ctx = NoContext
  /\ inFlight = 0
  /\ hung = FALSE
  /\ tx = NoTx

(***************************************************************************)
(* Serialisation (runner, lines 122-133 and 219).                          *)
(***************************************************************************)
\* A whole number v as the quotient v/1.
Num(v) == [num |-> v, den |-> 1]

\* Number.prototype.toFixed(3): the text NaN for NaN, which has no digits,
\* else the decimal numeral rounded to thousandths (ties upwards), as its
\* integer part and its three fractional digits.
toFixed3(q) ==
  IF q.den = 0 THEN [nan |-> TRUE, int |-> 0, frac |-> <<>>]
  ELSE LET th == (2000 * q.num + q.den) \div (2 * q.den)
       IN  [nan  |-> FALSE,
            int  |-> th \div 1000,
            frac |-> <<(th \div 100) % 10, (th \div 10) % 10, th % 10>>]

csvHeader ==
  <<"adapter", "case", "iterations", "mean_ms", "p50_ms", "p95_ms", "p99_ms",
    "min_ms", "max_ms", "errors">>

\* Rows whose p95 and p99 cells have changed places.
csvRowSwapped(r) ==
  << r.adapter, r.case, r.iterations,
     toFixed3(r.mean), toFixed3(Num(r.p50)), toFixed3(Num(r.p99)),
     toFixed3(Num(r.p95)), toFixed3(Num(r.min)), toFixed3(Num(r.max)),
     r.errors >>

csvRow(r) ==
  << r.adapter, r.case, r.iterations,
     toFixed3(r.mean), toFixed3(Num(r.p50)), toFixed3(Num(r.p95)),
     toFixed3(Num(r.p99)), toFixed3(Num(r.min)), toFixed3(Num(r.max)),
     r.errors >>

\* toCsv(results): the header line, then one line per result, each line as
\* the sequence of the fields that join(',') concatenates.
toCsv(results) ==
  <<csvHeader>> \o [k \in 1..Len(results) |-> csvRow(results[k])]

\* A record of a result that leaves the samples out.
jsonEntryNoTimings(r) ==
  [r EXCEPT !.mean = IF IsNaN(r.mean) THEN "null" ELSE r.mean,
            !.timings_ms = <<>>]

\* JSON.stringify of one RunResult: every field; NaN is written as null.
jsonEntry(r) == [r EXCEPT !.mean = IF IsNaN(r.mean) THEN "null" ELSE r.mean]

\* JSON.stringify(allResults, null, 2)
jsonStringify(results) == [k \in 1..Len(results) |-> jsonEntry(results[k])]

(***************************************************************************)
(* runCase (runner, lines 73-116) and main (lines 139-228).                *)
(***************************************************************************)
\* The case definition runCase works on: const bench = caseMap[caseName].
bench == caseMap(caseNames[ci])

\* The object runCase returns (lines 107-115).  timings_ms is the array that
\* was passed to computeStats, not a copy of it.
RunResult(adapterName, caseName, w, n, ts, e) ==
  LET st == computeStats(ts)
  IN  [ adapter    |-> adapterName,
        case       |-> caseName,
        warmup     |-> w,
        iterations |-> n,
        timings_ms |-> ArrayAfterStats(ts),
        errors     |-> e,
        mean       |-> st.mean,
        p50        |-> st.p50,
        p95        |-> st.p95,
        p99        |-> st.p99,
        min        |-> st.min,
        max        |-> st.max ]

\* The validation loops of main (lines 168-180): TRUE when no name makes
\* them call process.exit(1).
ValidationPasses(as, cs) ==
  /\ \A k \in 1..Len(as) : AdapterIncludes(as[k])
  /\ \A k \in 1..Len(cs) : Truthy(caseMap(cs[k]))

\* main().catch(err => { console.error(err); process.exit(1) })
Exit1(origin) ==
  /\ err' = origin
  /\ pc' = "exited"
  /\ exitCode' = 1

\* Lines 168-180.
Validate ==
  /\ pc = "validate"
  /\ IF ValidationPasses(adapterNames, caseNames)
     THEN pc' = "mkdir" /\ UNCHANGED << exitCode, err >>
     ELSE pc' = "exited" /\ exitCode' = 1 /\ UNCHANGED err
  /\ UNCHANGED << opts, hung, tx, ctx, inFlight, ai, ci, i, timings, errors, allResults, instances,
                  outDirMade, jsonFile, csvFile, calls, failed, warmFailed, opsTotal >>

\* Line 182: fs.mkdirSync(outDir, { recursive: true }), which may throw.
Mkdir(ok) ==
  /\ pc = "mkdir"
  /\ IF ok
     THEN /\ outDirMade' = TRUE
          /\ ai' = 1
          /\ pc' = "adapterLoop"
          /\ UNCHANGED << exitCode, err >>
     ELSE /\ Exit1("mkdir")
          /\ UNCHANGED << outDirMade, ai >>
  /\ UNCHANGED << opts, hung, tx, ctx, inFlight, ci, i, timings, errors, allResults, instances,
                  jsonFile, csvFile, calls, failed, warmFailed, opsTotal >>

\* createAdapter(name) (lines 21-29): a new, open instance.
createAdapter(name) == [name |-> name, closeCalls |-> 0, closed |-> FALSE]

\* The adapter loop leaving one adapter out: the report is written while a
\* selected adapter has not been run.
AdapterLoopOffByOne ==
  /\ pc = "adapterLoop"
  /\ IF ai < Len(adapterNames)
     THEN /\ instances' = Append(instances, createAdapter(adapterNames[ai]))
          /\ ci' = 1
          /\ pc' = "caseLoop"
     ELSE /\ pc' = "writeJson"
          /\ UNCHANGED << instances, ci >>
  /\ UNCHANGED << opts, hung, tx, ctx, inFlight, ai, i, timings, errors, err, allResults, outDirMade,
                  jsonFile, csvFile, exitCode, calls, failed, warmFailed, opsTotal >>

\* Lines 190-192: the head of the adapter loop.
AdapterLoop ==
  /\ pc = "adapterLoop"
  /\ IF ai <= Len(adapterNames)
     THEN /\ instances' = Append(instances, createAdapter(adapterNames[ai]))
          /\ ci' = 1
          /\ pc' = "caseLoop"
     ELSE /\ pc' = "writeJson"
          /\ UNCHANGED << instances, ci >>
  /\ UNCHANGED << opts, hung, tx, ctx, inFlight, ai, i, timings, errors, err, allResults, outDirMade,
                  jsonFile, csvFile, exitCode, calls, failed, warmFailed, opsTotal >>

\* Lines 195-197 and 80-84: the head of the case loop; entering runCase up to
\* its first suspension point.
CaseLoop ==
  /\ pc = "caseLoop"
  /\ IF ci > Len(caseNames)
     THEN /\ pc' = "finally"
          /\ UNCHANGED << err, calls, failed, warmFailed, opsTotal, i, ctx, inFlight >>
     ELSE IF ~Truthy(bench)
     THEN /\ err' = "unknownCase"
          /\ pc' = "finally"
          /\ UNCHANGED << calls, failed, warmFailed, opsTotal, i, ctx, inFlight >>
     ELSE /\ failed' = 0
          /\ warmFailed' = 0
          /\ i' = 0
          /\ UNCHANGED err
          /\ ctx' = FreshContext(ctx)
          /\ IF bench.setup
             THEN /\ calls' = [NoCalls EXCEPT !.setup = 1]
                  /\ opsTotal' = opsTotal + 1
                  /\ inFlight' = inFlight + 1
                  /\ pc' = "awaitSetup"
             ELSE /\ calls' = NoCalls
                  /\ UNCHANGED << opsTotal, inFlight >>
                  /\ pc' = "warmupLoop"
  /\ UNCHANGED << opts, hung, tx, ai, ci, timings, errors, allResults, instances, outDirMade,
                  jsonFile, csvFile, exitCode >>

\* A setup whose failure still runs the teardown before it propagates.
SetupSettlesRunsTeardown(ok) ==
  /\ pc = "awaitSetup"
  /\ AwaitNeedsSettlement
  /\ ctx' = IF ok THEN [ctx EXCEPT !.store = @ \cup SetupWrites(bench.name)] ELSE ctx
  /\ IF ok
     THEN /\ pc' = "warmupLoop"
          /\ inFlight' = inFlight - 1
          /\ UNCHANGED << err, calls, opsTotal >>
     ELSE /\ err' = "setup"
          /\ IF bench.teardown
             THEN /\ calls' = [calls EXCEPT !.teardown = @ + 1]
                  /\ opsTotal' = opsTotal + 1
                  /\ pc' = "awaitTeardown"
                  /\ UNCHANGED inFlight
             ELSE /\ pc' = "finally"
                  /\ inFlight' = inFlight - 1
                  /\ UNCHANGED << calls, opsTotal >>
  /\ UNCHANGED << opts, hung, tx, ai, ci, i, timings, errors, allResults, instances, outDirMade,
                  jsonFile, csvFile, exitCode, failed, warmFailed >>

\* Line 84: await bench.setup(adapter, ctx) settles.
SetupSettles(ok) ==
  /\ pc = "awaitSetup"
  /\ AwaitNeedsSettlement
  /\ ctx' = IF ok THEN [ctx EXCEPT !.store = @ \cup SetupWrites(bench.name)] ELSE ctx
  /\ IF ok
     THEN pc' = "warmupLoop" /\ UNCHANGED err
     ELSE pc' = "finally" /\ err' = "setup"
  /\ UNCHANGED << opts, hung, tx, ai, ci, i, timings, errors, allResults, instances, outDirMade,
                  jsonFile, csvFile, exitCode, calls, failed, warmFailed, opsTotal >>
  /\ inFlight' = inFlight - 1

\* Line 87: the condition of the warmup loop.
MoreWarmup == i < warmup

\* A measure loop that runs once too often.
MoreMeasuredOffByOne == i <= iterations

\* Line 95: the condition of the measure loop.
MoreMeasured == i < iterations

\* A warmup loop that calls the operation without awaiting it.
WarmupLoopNoAwait ==
  /\ pc = "warmupLoop"
  /\ IF MoreWarmup
     THEN IF bench.run
          THEN /\ calls' = [calls EXCEPT !.warmup = @ + 1]
               /\ opsTotal' = opsTotal + 1
               /\ inFlight' = inFlight + 1
               /\ i' = i + 1
               /\ UNCHANGED << pc, timings, errors, warmFailed >>
          ELSE /\ i' = i + 1
               /\ warmFailed' = warmFailed + 1
               /\ UNCHANGED << pc, calls, opsTotal, timings, errors, inFlight >>
     ELSE /\ timings' = <<>>
          /\ errors' = 0
          /\ i' = 0
          /\ pc' = "measureLoop"
          /\ UNCHANGED << calls, opsTotal, warmFailed, inFlight >>
  /\ UNCHANGED << opts, hung, tx, ctx, ai, ci, err, allResults, instances, outDirMade,
                  jsonFile, csvFile, exitCode, failed >>

\* Lines 87-95: the head of the warmup loop; on leaving it, timings and
\* errors are initialised.  A bench without a run function makes the call
\* throw a TypeError at once, which the catch ignores.
WarmupLoop ==
  /\ pc = "warmupLoop"
  /\ IF MoreWarmup
     THEN IF bench.run
          THEN /\ calls' = [calls EXCEPT !.warmup = @ + 1]
               /\ opsTotal' = opsTotal + 1
               /\ inFlight' = inFlight + 1
               /\ pc' = "awaitWarmup"
               /\ UNCHANGED << i, timings, errors, warmFailed >>
          ELSE /\ i' = i + 1
               /\ warmFailed' = warmFailed + 1
               /\ UNCHANGED << pc, calls, opsTotal, timings, errors, inFlight >>
     ELSE /\ timings' = <<>>
          /\ errors' = 0
          /\ i' = 0
          /\ pc' = "measureLoop"
          /\ UNCHANGED << calls, opsTotal, warmFailed, inFlight >>
  /\ UNCHANGED << opts, hung, tx, ctx, ai, ci, err, allResults, instances, outDirMade,
                  jsonFile, csvFile, exitCode, failed >>

\* A warmup loop without its try/catch: a failure leaves runCase.
WarmupSettlesThrows(ok) ==
  /\ pc = "awaitWarmup"
  /\ AwaitNeedsSettlement
  /\ warmFailed' = IF ok THEN warmFailed ELSE warmFailed + 1
  /\ IF ok
     THEN i' = i + 1 /\ pc' = "warmupLoop" /\ UNCHANGED err
     ELSE err' = "warmup" /\ pc' = "finally" /\ UNCHANGED i
  /\ UNCHANGED << opts, hung, tx, ctx, ai, ci, timings, errors, allResults, instances, outDirMade,
                  jsonFile, csvFile, exitCode, calls, failed, opsTotal >>
  /\ inFlight' = inFlight - 1

\* Line 88: try { await bench.run(adapter, ctx) } catch { /* ignore */ }
WarmupSettles(ok) ==
  /\ pc = "awaitWarmup"
  /\ AwaitNeedsSettlement
  /\ i' = i + 1
  /\ warmFailed' = IF ok THEN warmFailed ELSE warmFailed + 1
  /\ pc' = "warmupLoop"
  /\ UNCHANGED << opts, hung, tx, ctx, ai, ci, timings, errors, err, allResults, instances, outDirMade,
                  jsonFile, csvFile, exitCode, calls, failed, opsTotal >>
  /\ inFlight' = inFlight - 1

\* Lines 95-105: the head of the measure loop; on leaving it, teardown is
\* called if the case defines one.  d is performance.now() - t0 of an
\* iteration whose call throws at once.
MeasureLoop(d) ==
  /\ pc = "measureLoop"
  /\ IF MoreMeasured
     THEN IF bench.run
          THEN /\ calls' = [calls EXCEPT !.run = @ + 1]
               /\ opsTotal' = opsTotal + 1
               /\ inFlight' = inFlight + 1
               /\ pc' = "awaitRun"
               /\ UNCHANGED << i, timings, errors, failed >>
          ELSE /\ errors' = errors + 1
               /\ failed' = failed + 1
               /\ timings' = Append(timings, d)
               /\ i' = i + 1
               /\ UNCHANGED << pc, calls, opsTotal, inFlight >>
     ELSE /\ IF bench.teardown
             THEN /\ calls' = [calls EXCEPT !.teardown = @ + 1]
                  /\ opsTotal' = opsTotal + 1
                  /\ inFlight' = inFlight + 1
                  /\ pc' = "awaitTeardown"
             ELSE /\ pc' = "return"
                  /\ UNCHANGED << calls, opsTotal, inFlight >>
          /\ UNCHANGED << i, timings, errors, failed >>
  /\ UNCHANGED << opts, hung, tx, ctx, ai, ci, err, allResults, instances, outDirMade,
                  jsonFile, csvFile, exitCode, warmFailed >>

\* A measure loop that records the timing inside the try block, so that a
\* failed call leaves no sample.
RunSettlesPushInTry(ok, d) ==
  /\ pc = "awaitRun"
  /\ AwaitNeedsSettlement
  /\ errors' = IF ok THEN errors ELSE errors + 1
  /\ failed' = IF ok THEN failed ELSE failed + 1
  /\ timings' = IF ok THEN Append(timings, d) ELSE timings
  /\ i' = i + 1
  /\ pc' = "measureLoop"
  /\ UNCHANGED << opts, hung, tx, ctx, ai, ci, err, allResults, instances, outDirMade,
                  jsonFile, csvFile, exitCode, calls, warmFailed, opsTotal >>
  /\ inFlight' = inFlight - 1

\* A measure loop without its catch: a failed call leaves runCase.
RunSettlesAborts(ok, d) ==
  /\ pc = "awaitRun"
  /\ AwaitNeedsSettlement
  /\ failed' = IF ok THEN failed ELSE failed + 1
  /\ IF ok
     THEN /\ timings' = Append(timings, d)
          /\ i' = i + 1
          /\ pc' = "measureLoop"
          /\ UNCHANGED err
     ELSE /\ err' = "run"
          /\ pc' = "finally"
          /\ UNCHANGED << timings, i >>
  /\ UNCHANGED << opts, hung, tx, ctx, ai, ci, errors, allResults, instances, outDirMade,
                  jsonFile, csvFile, exitCode, calls, warmFailed, opsTotal >>
  /\ inFlight' = inFlight - 1

\* Lines 97-102: the measured call settles after d clock units.
RunSettles(ok, d) ==
  /\ pc = "awaitRun"
  /\ AwaitNeedsSettlement
  /\ errors' = IF ok THEN errors ELSE errors + 1
  /\ failed' = IF ok THEN failed ELSE failed + 1
  /\ timings' = Append(timings, d)
  /\ i' = i + 1
  /\ pc' = "measureLoop"
  /\ UNCHANGED << opts, hung, tx, ctx, ai, ci, err, allResults, instances, outDirMade,
                  jsonFile, csvFile, exitCode, calls, warmFailed, opsTotal >>
  /\ inFlight' = inFlight - 1

\* Line 105: await bench.teardown(adapter, ctx) settles.
TeardownSettles(ok) ==
  /\ pc = "awaitTeardown"
  /\ AwaitNeedsSettlement
  /\ IF ok
     THEN pc' = "return" /\ UNCHANGED err
     ELSE pc' = "finally" /\ err' = "teardown"
  /\ UNCHANGED << opts, hung, tx, ctx, ai, ci, i, timings, errors, allResults, instances, outDirMade,
                  jsonFile, csvFile, exitCode, calls, failed, warmFailed, opsTotal >>
  /\ inFlight' = inFlight - 1

\* A main that puts each result in front of the earlier ones.
ReturnUnshift ==
  /\ pc = "return"
  /\ allResults' = << RunResult(adapterNames[ai], caseNames[ci], warmup, iterations,
                                timings, errors) >> \o allResults
  /\ ci' = ci + 1
  /\ pc' = "caseLoop"
  /\ i' = 0
  /\ timings' = <<>>
  /\ errors' = 0
  /\ calls' = NoCalls
  /\ failed' = 0
  /\ warmFailed' = 0
  /\ UNCHANGED << opts, hung, tx, ctx, inFlight, ai, err, instances, outDirMade, jsonFile, csvFile,
                  exitCode, opsTotal >>

\* Lines 107-115 and 197-198: runCase returns its RunResult, which ends the
\* life of its locals, and main appends the result to allResults.
Return ==
  /\ pc = "return"
  /\ allResults' = Append(allResults,
                     RunResult(adapterNames[ai], caseNames[ci], warmup, iterations,
                               timings, errors))
  /\ ci' = ci + 1
  /\ pc' = "caseLoop"
  /\ i' = 0
  /\ timings' = <<>>
  /\ errors' = 0
  /\ calls' = NoCalls
  /\ failed' = 0
  /\ warmFailed' = 0
  /\ UNCHANGED << opts, hung, tx, ctx, inFlight, ai, err, instances, outDirMade, jsonFile, csvFile,
                  exitCode, opsTotal >>

\* A main that closes the adapter after the case loop instead of in a
\* finally block: an exception of the case loop leaves main at once.
FinallySkipsOnError ==
  /\ pc = "finally"
  /\ IF err = "none"
     THEN /\ instances' = [instances EXCEPT ![ai].closeCalls = @ + 1]
          /\ pc' = "awaitClose"
          /\ inFlight' = inFlight + 1
          /\ UNCHANGED exitCode
     ELSE /\ pc' = "exited"
          /\ exitCode' = 1
          /\ UNCHANGED << instances, inFlight >>
  /\ UNCHANGED << opts, hung, tx, ctx, ai, ci, i, timings, errors, err, allResults, outDirMade,
                  jsonFile, csvFile, calls, failed, warmFailed, opsTotal >>

\* A main that calls close() without awaiting it.
FinallyNoAwait ==
  /\ pc = "finally"
  /\ instances' = [instances EXCEPT ![ai].closeCalls = @ + 1]
  /\ IF err = "none"
     THEN ai' = ai + 1 /\ pc' = "adapterLoop" /\ UNCHANGED exitCode
     ELSE pc' = "exited" /\ exitCode' = 1 /\ UNCHANGED ai
  /\ UNCHANGED << opts, hung, tx, ctx, ci, i, timings, errors, err, allResults, outDirMade,
                  jsonFile, csvFile, calls, failed, warmFailed, opsTotal >>
  /\ inFlight' = inFlight + 1

\* Lines 206-207: finally { await adapter.close() } is entered.
Finally ==
  /\ pc = "finally"
  /\ instances' = [instances EXCEPT ![ai].closeCalls = @ + 1]
  /\ pc' = "awaitClose"
  /\ UNCHANGED << opts, hung, tx, ctx, ai, ci, i, timings, errors, err, allResults, outDirMade,
                  jsonFile, csvFile, exitCode, calls, failed, warmFailed, opsTotal >>
  /\ inFlight' = inFlight + 1

\* A main that catches the exception of a case run and goes on with the
\* next adapter.
CloseSettlesSwallows(ok) ==
  /\ pc = "awaitClose"
  /\ AwaitNeedsSettlement
  /\ instances' = [instances EXCEPT ![ai].closed = TRUE]
  /\ IF ~ok
     THEN Exit1("close") /\ UNCHANGED ai
     ELSE /\ ai' = ai + 1
          /\ pc' = "adapterLoop"
          /\ UNCHANGED << err, exitCode >>
  /\ UNCHANGED << opts, hung, tx, ctx, ci, i, timings, errors, allResults, outDirMade,
                  jsonFile, csvFile, calls, failed, warmFailed, opsTotal >>
  /\ inFlight' = inFlight - 1

\* Lines 207-211: close() settles; a pending exception of the try block, or
\* the one close() raised, leaves main, else the adapter loop goes on.
CloseSettles(ok) ==
  /\ pc = "awaitClose"
  /\ AwaitNeedsSettlement
  /\ instances' = [instances EXCEPT ![ai].closed = TRUE]
  /\ IF ~ok
     THEN Exit1("close") /\ UNCHANGED ai
     ELSE IF err # "none"
     THEN Exit1(err) /\ UNCHANGED ai
     ELSE /\ ai' = ai + 1
          /\ pc' = "adapterLoop"
          /\ UNCHANGED << err, exitCode >>
  /\ UNCHANGED << opts, hung, tx, ctx, ci, i, timings, errors, allResults, outDirMade,
                  jsonFile, csvFile, calls, failed, warmFailed, opsTotal >>
  /\ inFlight' = inFlight - 1

\* Line 219: fs.writeFileSync(jsonPath, JSON.stringify(allResults, null, 2)).
\* A write that throws leaves no file or a truncated one.
WriteJson(ok, left) ==
  /\ pc = "writeJson"
  /\ IF ok
     THEN /\ jsonFile' = WrittenFile(jsonStringify(allResults))
          /\ pc' = "writeCsv"
          /\ UNCHANGED << err, exitCode >>
     ELSE /\ jsonFile' = FailedFile(left)
          /\ Exit1("write")
  /\ UNCHANGED << opts, hung, tx, ctx, inFlight, ai, ci, i, timings, errors, allResults, instances, outDirMade,
                  csvFile, calls, failed, warmFailed, opsTotal >>

\* Lines 220-223: fs.writeFileSync(csvPath, toCsv(allResults)); main returns.
WriteCsv(ok, left) ==
  /\ pc = "writeCsv"
  /\ IF ok
     THEN /\ csvFile' = WrittenFile(toCsv(allResults))
          /\ pc' = "done"
          /\ exitCode' = 0
          /\ UNCHANGED err
     ELSE /\ csvFile' = FailedFile(left)
          /\ Exit1("write")
  /\ UNCHANGED << opts, hung, tx, ctx, inFlight, ai, ci, i, timings, errors, allResults, instances, outDirMade,
                  jsonFile, calls, failed, warmFailed, opsTotal >>

Next ==
  \/ Validate
  \/ \E ok \in BOOLEAN : Mkdir(ok)
  \/ AdapterLoop
  \/ CaseLoop
  \/ \E ok \in BOOLEAN : SetupSettles(ok)
  \/ WarmupLoop
  \/ \E ok \in BOOLEAN : WarmupSettles(ok)
  \/ \E d \in Durations : MeasureLoop(d)
  \/ \E ok \in BOOLEAN, d \in Durations : RunSettles(ok, d)
  \/ \E ok \in BOOLEAN : TeardownSettles(ok)
  \/ Return
  \/ Finally
  \/ \E ok \in BOOLEAN : CloseSettles(ok)
  \/ \E ok \in BOOLEAN, left \in {"absent", "partial"} : WriteJson(ok, left)
  \/ \E ok \in BOOLEAN, left \in {"absent", "partial"} : WriteCsv(ok, left)

Spec == Init /\ [][Next]_vars

(***************************************************************************)
(* The statistics and the serialisation on richer samples.  SpecStats      *)
(* starts where a runCase call over one adapter and one case without setup *)
(* or teardown is about to return (line 107): the measure loop has         *)
(* recorded the samples, of which either none or all belong to failed      *)
(* calls.  From there main appends the result, closes the adapter and      *)
(* writes the artifacts.                                                   *)
(***************************************************************************)
\* step, 2*step, ..., n*step
RampUp(n, step) == [k \in 1..n |-> k * step]

\* n*step, ..., 2*step, step
RampDown(n, step) == [k \in 1..n |-> (n + 1 - k) * step]

SampleSeqs ==
  UNION {[1..k -> 0..MaxSampleValue] : k \in 0..MaxSampleLen}
    \cup {RampUp(n, step) : n \in 1..MaxRamp, step \in {1, 10}}
    \cup {RampDown(n, step) : n \in 1..MaxRamp, step \in {1, 10}}

InitStats ==
  /\ adapterNames = <<"raw">>
  /\ caseNames = <<"findUserByEmail">>
  /\ warmup = 0
  /\ timings \in SampleSeqs
  /\ iterations = Len(timings)
  /\ errors \in {0, Len(timings)}
  /\ failed = errors
  /\ pc = "return"
  /\ ai = 1
  /\ ci = 1
  /\ i = iterations
  /\ err = "none"
  /\ allResults = <<>>
  /\ instances = <<createAdapter("raw")>>
  /\ outDirMade = TRUE
  /\ jsonFile = NoFile
  /\ csvFile = NoFile
  /\ exitCode = "running"
  /\ calls = [NoCalls EXCEPT !.run = iterations]
  /\ warmFailed = 0
  /\ opsTotal = iterations
  /\ ctx = FreshContext(NoContext)
  /\ inFlight = 0
  /\ hung = FALSE
  /\ tx = NoTx

NextStats ==
  \/ Return
  \/ CaseLoop
  \/ Finally
  \/ \E ok \in BOOLEAN : CloseSettles(ok)
  \/ AdapterLoop
  \/ \E ok \in BOOLEAN, left \in {"absent", "partial"} : WriteJson(ok, left)
  \/ \E ok \in BOOLEAN, left \in {"absent", "partial"} : WriteCsv(ok, left)

SpecStats == InitStats /\ [][NextStats]_vars

(***************************************************************************)
(* Runs in which an adapter operation may never settle.  The promise the   *)
(* runner awaits is the adapter's: it may stay pending for ever.  SpecHang *)
(* adds that outcome to the outcomes of a call, and states what the event  *)
(* loop guarantees: a step of the runner that can be taken is taken.       *)
(***************************************************************************)
NeverSettles ==
  /\ pc \in {"awaitSetup", "awaitWarmup", "awaitRun", "awaitTeardown", "awaitClose"}
  /\ ~hung
  /\ hung' = TRUE
  /\ UNCHANGED << opts, pc, ai, ci, i, timings, errors, err, allResults, instances,
                  outDirMade, jsonFile, csvFile, exitCode, calls, failed, warmFailed,
                  opsTotal, ctx, inFlight, tx >>

InitHang ==
  /\ Init
  /\ Len(adapterNames) * Len(caseNames) * (warmup + iterations) <= MaxHangCalls

NextHang ==
  \/ Next
  \/ NeverSettles

SpecHang == InitHang /\ [][NextHang]_vars /\ WF_vars(Next)

(***************************************************************************)
(* RawSqlAdapter.createOrderWithItems (src/clients/orm/index.ts, lines     *)
(* 605-641), called on its own.  Every await of the method is one action,  *)
(* taken with the outcome of the awaited call.  The database is            *)
(* PostgreSQL: rows inserted after BEGIN are staged in the transaction of  *)
(* the client's connection and become committed rows when COMMIT succeeds; *)
(* a COMMIT that reports an error has committed nothing.                   *)
(***************************************************************************)
\* A statement is sent on the client: client.query(text).
Send(text) == Append(tx.sent, text)

\* The catch block is entered with the error of the statement that failed.
Caught(text) == [tx EXCEPT !.sent = Send(text), !.error = text, !.pc = "rollback"]

InitTx ==
  /\ adapterNames = <<"raw">>
  /\ caseNames = <<"findUserByEmail">>
  /\ warmup = 0
  /\ iterations = 0
  /\ pc = "validate"
  /\ ai = 0
  /\ ci = 0
  /\ i = 0
  /\ timings = <<>>
  /\ errors = 0
  /\ err = "none"
  /\ allResults = <<>>
  /\ instances = <<>>
  /\ outDirMade = FALSE
  /\ jsonFile = NoFile
  /\ csvFile = NoFile
  /\ exitCode = "running"
  /\ calls = NoCalls
  /\ failed = 0
  /\ warmFailed = 0
  /\ opsTotal = 0
  /\ ctx = NoContext
  /\ inFlight = 0
  /\ hung = FALSE
  /\ \E n \in 0..MaxItems, o \in 0..MaxOrders :
       tx = [NoTx EXCEPT !.pc = "connect", !.items = n,
                         !.before = Rows(o, o, o), !.committed = Rows(o, o, o)]

\* Line 606: const client = await this.pool.connect(), outside the try.
Connect(ok) ==
  /\ tx.pc = "connect"
  /\ tx' = IF ok THEN [tx EXCEPT !.acquired = TRUE, !.pc = "begin"]
           ELSE [tx EXCEPT !.error = "connect", !.pc = "thrown"]
  /\ UNCHANGED runner

\* Line 608: await client.query('BEGIN')
Begin(ok) ==
  /\ tx.pc = "begin"
  /\ tx' = IF ok THEN [tx EXCEPT !.sent = Send("BEGIN"), !.pc = "insertOrder"]
           ELSE Caught("BEGIN")
  /\ UNCHANGED runner

\* An order inserted through the pool (this.pool.query), outside the
\* transaction of the client: the row is committed at once.
InsertOrderOnPool(ok) ==
  /\ tx.pc = "insertOrder"
  /\ tx' = IF ok
           THEN [tx EXCEPT !.sent = Send("INSERT orders"),
                           !.committed.orders = @ + 1,
                           !.pc = IF tx.items > 0 THEN "insertItems" ELSE "insertPayment"]
           ELSE Caught("INSERT orders")
  /\ UNCHANGED runner

\* Lines 610-615: INSERT INTO orders ... RETURNING; line 617: the items
\* statement is skipped for an order without items.
InsertOrder(ok) ==
  /\ tx.pc = "insertOrder"
  /\ tx' = IF ok
           THEN [tx EXCEPT !.sent = Send("INSERT orders"),
                           !.staged.orders = @ + 1,
                           !.pc = IF tx.items > 0 THEN "insertItems" ELSE "insertPayment"]
           ELSE Caught("INSERT orders")
  /\ UNCHANGED runner

\* Lines 617-626: one INSERT INTO order_items for all the items.
InsertItems(ok) ==
  /\ tx.pc = "insertItems"
  /\ tx' = IF ok
           THEN [tx EXCEPT !.sent = Send("INSERT order_items"),
                           !.staged.items = @ + tx.items,
                           !.pc = "insertPayment"]
           ELSE Caught("INSERT order_items")
  /\ UNCHANGED runner

\* Lines 628-631: INSERT INTO payments.
InsertPayment(ok) ==
  /\ tx.pc = "insertPayment"
  /\ tx' = IF ok
           THEN [tx EXCEPT !.sent = Send("INSERT payments"),
                           !.staged.payments = @ + 1,
                           !.pc = "commit"]
           ELSE Caught("INSERT payments")
  /\ UNCHANGED runner

\* Lines 633-634: await client.query('COMMIT'); return order.  A COMMIT
\* that fails has committed nothing and has ended the transaction; being
\* inside the try, it too is followed by the catch block.
Commit(ok) ==
  /\ tx.pc = "commit"
  /\ tx' = IF ok
           THEN [tx EXCEPT !.sent = Send("COMMIT"),
                           !.committed = Rows(@.orders + tx.staged.orders,
                                              @.items + tx.staged.items,
                                              @.payments + tx.staged.payments),
                           !.staged = Rows(0, 0, 0),
                           !.pc = "finally"]
           ELSE [Caught("COMMIT") EXCEPT !.staged = Rows(0, 0, 0)]
  /\ UNCHANGED runner

\* Lines 635-637: catch (err) { await client.query('ROLLBACK'); throw err }.
\* A ROLLBACK that fails replaces the error thrown; the rows stay staged,
\* never committed.
Rollback(ok) ==
  /\ tx.pc = "rollback"
  /\ tx' = IF ok
           THEN [tx EXCEPT !.sent = Send("ROLLBACK"),
                           !.staged = Rows(0, 0, 0),
                           !.pc = "finally"]
           ELSE [tx EXCEPT !.sent = Send("ROLLBACK"),
                           !.error = "ROLLBACK",
                           !.pc = "finally"]
  /\ UNCHANGED runner

\* A release in the try block, after COMMIT, instead of in finally.
ReleaseInTry ==
  /\ tx.pc = "finally"
  /\ tx' = IF tx.error = "none"
           THEN [tx EXCEPT !.releases = @ + 1, !.pc = "returned"]
           ELSE [tx EXCEPT !.pc = "thrown"]
  /\ UNCHANGED runner

\* Lines 638-640: finally { client.release() }; then the method returns
\* the order or throws.
Release ==
  /\ tx.pc = "finally"
  /\ tx' = [tx EXCEPT !.releases = @ + 1,
                      !.pc = IF tx.error = "none" THEN "returned" ELSE "thrown"]
  /\ UNCHANGED runner

NextTx ==
  \/ \E ok \in BOOLEAN : Connect(ok)
  \/ \E ok \in BOOLEAN : Begin(ok)
  \/ \E ok \in BOOLEAN : InsertOrder(ok)
  \/ \E ok \in BOOLEAN : InsertItems(ok)
  \/ \E ok \in BOOLEAN : InsertPayment(ok)
  \/ \E ok \in BOOLEAN : Commit(ok)
  \/ \E ok \in BOOLEAN : Rollback(ok)
  \/ Release

SpecTx == InitTx /\ [][NextTx]_vars

(***************************************************************************)
(* Properties of the runner.                                               *)
(***************************************************************************)
\* The number of (adapter, case) pairs that precede pair (a, c) in main's
\* nested loops.
PairsBefore(a, c) == (a - 1) * Len(caseNames) + (c - 1)

\* The positions inside one runCase call.
InRunCase ==
  pc \in {"awaitSetup", "warmupLoop", "awaitWarmup", "measureLoop", "awaitRun",
          "awaitTeardown", "return"}

\* C1: every RunResult that runCase returns has exactly `iterations` timing
\* samples and carries `iterations` in its iterations field, for every
\* warmup count and whatever calls failed.
C1_TimingsLengthIsIterations ==
  /\ pc = "return" => Len(timings) = iterations
  /\ \A k \in 1..Len(allResults) :
       /\ Len(allResults[k].timings_ms) = iterations
       /\ allResults[k].iterations = iterations

\* C1 witness: a result of two iterations that both failed, after a warmup.
C1_Witness ==
  \E k \in 1..Len(allResults) :
    /\ allResults[k].iterations = 2
    /\ allResults[k].errors = 2
    /\ allResults[k].warmup = 1
    /\ Len(allResults[k].timings_ms) = 2

C3_MeasuredFailureAbsorbed ==
  /\ [](InRunCase => errors = failed)
  /\ [][ /\ pc = "awaitRun" =>
              /\ pc' = "measureLoop"
              /\ i' = i + 1
              /\ err' = err
              /\ exitCode' = exitCode
              /\ timings' \in {Append(timings, d) : d \in Durations}
              /\ errors' - errors = failed' - failed
              /\ failed' - failed \in {0, 1}
         /\ pc = "return" =>
              /\ Len(allResults') = Len(allResults) + 1
              /\ allResults'[Len(allResults')].errors = failed
       ]_vars

\* C3 witness: a result of two iterations of which exactly one failed, from
\* a case whose run is a real adapter call.
C3_Witness ==
  \E k \in 1..Len(allResults) :
    /\ allResults[k].iterations = 2
    /\ allResults[k].errors = 1
    /\ allResults[k].case \in RegisteredNames

\* C4: a warmup call that fails is not propagated, adds nothing to errors
\* and records no sample: during warmup errors is 0, timings is empty and no
\* exception is in flight, the step that settles a warmup call only moves to
\* the next warmup index, and a run whose warmup calls failed returns the
\* errors and the samples of its measured calls alone.
C4_WarmupFailureDiscarded ==
  /\ [](pc \in {"warmupLoop", "awaitWarmup"} =>
          errors = 0 /\ timings = <<>> /\ err = "none" /\ failed = 0)
  /\ [](pc = "return" /\ warmFailed > 0 =>
          errors = failed /\ Len(timings) = iterations)
  /\ [][ pc = "awaitWarmup" =>
           /\ pc' = "warmupLoop"
           /\ i' = i + 1
           /\ UNCHANGED << errors, timings, err, exitCode, allResults, failed >>
       ]_vars

\* C4 witness: runCase is about to return a result without errors although
\* its warmup call, a real adapter call, failed.
C4_Witness ==
  /\ pc = "return"
  /\ calls.warmup = 1
  /\ warmFailed = 1
  /\ iterations = 2
  /\ errors = 0
  /\ Len(timings) = 2

\* C5: when setup fails the exception leaves runCase: no warmup call, no
\* measured call and no teardown is issued for that run, no RunResult of
\* that pair is appended (allResults holds the results of the earlier pairs
\* only, and stays as it is), and the process ends with status 1.
C5_SetupFailurePropagates ==
  /\ [](err = "setup" =>
          /\ pc \in {"finally", "awaitClose", "exited"}
          /\ calls = [NoCalls EXCEPT !.setup = 1]
          /\ Len(allResults) = PairsBefore(ai, ci)
          /\ jsonFile = NoFile /\ csvFile = NoFile
          /\ (pc = "exited" => exitCode = 1))
  /\ [][ err = "setup" => UNCHANGED << allResults, calls, opsTotal, ai, ci >> ]_vars

\* C5 witness: the process has ended on a setup failure of a case that
\* defines a teardown, in a run with warmup and iterations, after one earlier
\* pair had produced its result.
C5_Witness ==
  /\ err = "setup"
  /\ pc = "exited"
  /\ bench.teardown
  /\ warmup = 1
  /\ iterations >= 1
  /\ Len(allResults) = 1

\* C6: close() is called exactly once on every adapter instance main
\* constructs, after the last case it attempted: while cases of the current
\* instance run it has not been called, every earlier instance has had it
\* called once, and when main has ended, normally or by an exception of a
\* case run, every instance has had it called once.
C6_CloseExactlyOnce ==
  /\ \A k \in 1..Len(instances) : instances[k].closeCalls <= 1
  /\ \A k \in 1..(Len(instances) - 1) : instances[k].closeCalls = 1
  /\ (InRunCase \/ pc \in {"caseLoop", "finally"}) =>
        Len(instances) = ai /\ instances[ai].closeCalls = 0
  /\ pc \in {"awaitClose", "writeJson", "writeCsv", "done", "exited"} =>
        \A k \in 1..Len(instances) : instances[k].closeCalls = 1

\* C6 witness: main has ended on a teardown failure under the second
\* instance, and both instances have had close() called once.
C6_Witness ==
  /\ pc = "exited"
  /\ err = "teardown"
  /\ Len(instances) = 2
  /\ \A k \in 1..2 : instances[k].closeCalls = 1

\* C7 (as claimed): a teardown that fails leaves the RunResult of that pair,
\* with its n timings, in allResults.
C7_TeardownFailureKeepsResult ==
  err = "teardown" =>
    /\ Len(allResults) = PairsBefore(ai, ci) + 1
    /\ Len(allResults[Len(allResults)].timings_ms) = iterations

\* The requested names hold one that is not registered.
HasUnknownName ==
  \/ \E k \in 1..Len(adapterNames) :
       \A m \in 1..Len(ADAPTER_NAMES) : ADAPTER_NAMES[m] # adapterNames[k]
  \/ \E k \in 1..Len(caseNames) : caseNames[k] \notin RegisteredNames

\* C8 (as claimed): when a requested adapter name or case name is not
\* registered, no adapter is constructed, no lifecycle call is issued and
\* no report artifact is written.
C8_UnknownNameFailsFast ==
  HasUnknownName =>
    /\ instances = <<>>
    /\ opsTotal = 0
    /\ allResults = <<>>
    /\ jsonFile = NoFile
    /\ csvFile = NoFile

\* C9: adapters are handled one at a time: at most one constructed
\* instance has no settled close(), and it is the latest one; every earlier
\* instance had its close() called and settled before the next one was
\* constructed.
C9_OneStrategyAtATime ==
  /\ Cardinality({k \in 1..Len(instances) : ~instances[k].closed}) <= 1
  /\ \A k \in 1..(Len(instances) - 1) :
       instances[k].closed /\ instances[k].closeCalls = 1

\* C9 witness: the second instance is live and the first one is closed.
C9_Witness ==
  /\ Len(instances) = 2
  /\ instances[1].closed
  /\ ~instances[2].closed
  /\ InRunCase

\* C10: when main has completed, allResults holds exactly one RunResult per
\* (adapter, case) pair, adapter-major in the requested adapter order and in
\* the requested case order within an adapter, and the data rows of the
\* summary table and the entries of the complete record are in that order.
C10_ResultsInSelectionOrder ==
  pc = "done" =>
    /\ Len(allResults) = Len(adapterNames) * Len(caseNames)
    /\ \A a \in 1..Len(adapterNames), c \in 1..Len(caseNames) :
         /\ allResults[PairsBefore(a, c) + 1].adapter = adapterNames[a]
         /\ allResults[PairsBefore(a, c) + 1].case = caseNames[c]
    /\ Len(csvFile.content) = Len(allResults) + 1
    /\ Len(jsonFile.content) = Len(allResults)
    /\ \A k \in 1..Len(allResults) :
         /\ csvFile.content[k + 1][1] = allResults[k].adapter
         /\ csvFile.content[k + 1][2] = allResults[k].case
         /\ csvFile.content[k + 1][10] = allResults[k].errors
         /\ jsonFile.content[k].adapter = allResults[k].adapter
         /\ jsonFile.content[k].case = allResults[k].case
         /\ jsonFile.content[k].timings_ms = allResults[k].timings_ms

\* C10 witness: a completed run of two different adapters over two
\* different cases with one iteration each.
C10_Witness ==
  /\ pc = "done"
  /\ Len(adapterNames) = 2 /\ adapterNames[1] # adapterNames[2]
  /\ Len(caseNames) = 2 /\ caseNames[1] # caseNames[2]
  /\ iterations = 1

\* C11: the artifacts are written only after every selected adapter has been
\* processed and released.  Whenever a write is about to happen, or either
\* artifact has been touched, one instance per selected adapter has been
\* built and every one of them is closed, and allResults holds the result
\* of every (adapter, case) pair.
WriteStarted ==
  \/ pc \in {"writeJson", "writeCsv", "done"}
  \/ jsonFile # NoFile
  \/ csvFile # NoFile

C11_WritesAfterAllReleased ==
  WriteStarted =>
    /\ Len(instances) = Len(adapterNames)
    /\ \A k \in 1..Len(instances) :
         instances[k].closed /\ instances[k].name = adapterNames[k]
    /\ Len(allResults) = Len(adapterNames) * Len(caseNames)
    /\ \A a \in 1..Len(adapterNames), c \in 1..Len(caseNames) :
         LET r == allResults[(a - 1) * Len(caseNames) + c]
         IN r.adapter = adapterNames[a] /\ r.case = caseNames[c]

C11_Witness ==
  /\ pc = "done"
  /\ Len(adapterNames) = 2
  /\ Len(allResults) >= 2
  /\ jsonFile.status = "complete"
  /\ csvFile.status = "complete"

\* C12: for every non-empty sample sequence of length n and P in
\* {50, 95, 99} the reported percentile is the sample that stands at the
\* zero-based place ceil(P/100 * n) - 1, clamped to 0..n-1, when the samples
\* are put in ascending order: at most that many samples are smaller than
\* it and more than that many are not greater.  For <<10, 20, 30, 40>> this
\* gives p50 = 20 and p95 = p99 = 40; for a single sample x all three are x.
NearestRank(P, n) ==
  LET c == CHOOSE k \in 0..n : 100 * k >= P * n /\ 100 * (k - 1) < P * n
  IN  IF c - 1 < 0 THEN 0 ELSE IF c - 1 > n - 1 THEN n - 1 ELSE c - 1

StandsAt(ts, place, v) ==
  /\ Cardinality({j \in 1..Len(ts) : ts[j] < v}) <= place
  /\ place < Cardinality({j \in 1..Len(ts) : ts[j] <= v})

C12_NearestRankPercentile ==
  \A k \in 1..Len(allResults) :
    LET r  == allResults[k]
        ts == r.timings_ms
        n  == Len(ts)
    IN  n >= 1 =>
          /\ StandsAt(ts, NearestRank(50, n), r.p50)
          /\ StandsAt(ts, NearestRank(95, n), r.p95)
          /\ StandsAt(ts, NearestRank(99, n), r.p99)
          /\ ts = <<10, 20, 30, 40>> => r.p50 = 20 /\ r.p95 = 40 /\ r.p99 = 40
          /\ n = 1 => r.p50 = ts[1] /\ r.p95 = ts[1] /\ r.p99 = ts[1]

\* One hundred samples recorded in descending order: the three percentiles
\* and the maximum are four different samples.
C12_Witness ==
  /\ Len(allResults) = 1
  /\ allResults[1].timings_ms = RampDown(100, 1)
  /\ allResults[1].p50 = 50
  /\ allResults[1].p95 = 95
  /\ allResults[1].p99 = 99
  /\ allResults[1].max = 100

\* C14: for every non-empty timing sequence the reported mean is the sum
\* of all recorded samples, those of failed iterations included, divided
\* by their number; the mean of <<1, 2, 3, 4, 5>> is 3.  The sum is taken
\* here value by value: each value times the number of samples having it.
RECURSIVE SumBetween(_, _, _)
SumBetween(ts, lo, hi) ==
  IF \A j \in 1..Len(ts) : ts[j] < lo \/ ts[j] > hi THEN 0
  ELSE IF lo = hi THEN lo * Cardinality({j \in 1..Len(ts) : ts[j] = lo})
  ELSE LET mid == (lo + hi) \div 2
       IN  SumBetween(ts, lo, mid) + SumBetween(ts, mid + 1, hi)

C14_MeanIsArithmeticAverage ==
  \A k \in 1..Len(allResults) :
    LET r  == allResults[k]
        ts == r.timings_ms
        n  == Len(ts)
    IN  n >= 1 =>
          /\ r.mean.den # 0
          /\ r.mean.num * n = SumBetween(ts, 0, 10 * MaxRamp) * r.mean.den
          /\ ts = <<1, 2, 3, 4, 5>> => r.mean.num = 3 * r.mean.den

\* Two samples, both of failed iterations, whose average is not whole.
C14_Witness ==
  /\ Len(allResults) = 1
  /\ allResults[1].timings_ms = <<3, 0>>
  /\ allResults[1].errors = 2
  /\ allResults[1].mean = [num |-> 3, den |-> 2]

\* C13: when no iteration is measured (iterations = 0, timings empty) the
\* mean, p50, p95, p99, min and max of the result are all the number 0.
C13_EmptyTimingsAllZero ==
  \A k \in 1..Len(allResults) :
    LET r == allResults[k]
    IN  r.iterations = 0 =>
          /\ ~IsNaN(r.mean) /\ r.mean.num = 0
          /\ r.p50 = 0 /\ r.p95 = 0 /\ r.p99 = 0
          /\ r.min = 0 /\ r.max = 0

\* C15: computeStats leaves the array it is given as it was.  The result
\* runCase returns carries the samples in iteration order: each measured
\* call appends its duration at the end of timings, and timings_ms of the
\* returned result is that sequence, entry for entry, not its sorted copy.
C15_TimingsKeptInIterationOrder ==
  [][ /\ Len(timings') > Len(timings) =>
           \E d \in Durations : timings' = Append(timings, d)
      /\ pc = "return" =>
           /\ Len(allResults') = Len(allResults) + 1
           /\ allResults'[Len(allResults')].timings_ms = timings ]_vars

\* A result whose samples were recorded in descending order.
C15_Witness ==
  \E k \in 1..Len(allResults) :
    /\ allResults[k].timings_ms = <<1, 0>>
    /\ allResults[k].min = 0
    /\ allResults[k].max = 1

\* C16: the summary table starts with a fixed header row, adapter, case,
\* iterations, mean_ms, p50_ms, p95_ms, p99_ms, min_ms, max_ms, errors, and
\* every data row carries the ten values of its result in that column
\* order.  A numeric cell holds the value of its column when its numeral
\* is within half a thousandth of that value, or when both are NaN.
Holds(cell, q) ==
  IF IsNaN(q) THEN cell.nan
  ELSE
    /\ ~cell.nan
    /\ Len(cell.frac) = 3
    /\ LET th == 1000 * cell.int + 100 * cell.frac[1] + 10 * cell.frac[2]
                   + cell.frac[3]
           diff == 2 * q.den * th - 2000 * q.num
       IN  diff <= q.den /\ -diff <= q.den

RowsInColumnOrder ==
  /\ Len(csvFile.content) = Len(allResults) + 1
  /\ \A k \in 1..Len(allResults) :
       LET r   == allResults[k]
           row == csvFile.content[k + 1]
       IN  /\ Len(row) = 10
           /\ row[1] = r.adapter
           /\ row[2] = r.case
           /\ row[3] = r.iterations
           /\ Holds(row[4], r.mean)
           /\ Holds(row[5], [num |-> r.p50, den |-> 1])
           /\ Holds(row[6], [num |-> r.p95, den |-> 1])
           /\ Holds(row[7], [num |-> r.p99, den |-> 1])
           /\ Holds(row[8], [num |-> r.min, den |-> 1])
           /\ Holds(row[9], [num |-> r.max, den |-> 1])
           /\ row[10] = r.errors

C16_CsvColumnsAdapterFirst ==
  csvFile.status = "complete" =>
    /\ csvFile.content[1] =
         <<"adapter", "case", "iterations", "mean_ms", "p50_ms", "p95_ms",
           "p99_ms", "min_ms", "max_ms", "errors">>
    /\ RowsInColumnOrder

\* C16 as stated: the first column of the header is named strategy.
C16_CsvColumnsStrategyFirst ==
  csvFile.status = "complete" =>
    /\ csvFile.content[1] =
         <<"strategy", "case", "iterations", "mean_ms", "p50_ms", "p95_ms",
           "p99_ms", "min_ms", "max_ms", "errors">>
    /\ RowsInColumnOrder

\* A written table whose row has six different statistics: the mean of
\* 1..100 is 50.500.
C16_Witness ==
  /\ csvFile.status = "complete"
  /\ Len(allResults) = 1
  /\ allResults[1].timings_ms = RampDown(100, 1)
  /\ csvFile.content[2][4] = [nan |-> FALSE, int |-> 50, frac |-> <<5, 0, 0>>]
  /\ csvFile.content[2][6] = [nan |-> FALSE, int |-> 95, frac |-> <<0, 0, 0>>]
  /\ csvFile.content[2][7] = [nan |-> FALSE, int |-> 99, frac |-> <<0, 0, 0>>]

\* C17: in every row of the written summary table, each of the six
\* statistic cells (mean, p50, p95, p99, min, max) is a fixed-point numeral
\* with exactly three fractional digits, also for a result with zero
\* iterations.
C17_ThreeFractionalDigits ==
  csvFile.status = "complete" =>
    \A k \in 2..Len(csvFile.content), col \in 4..9 :
      LET cell == csvFile.content[k][col]
      IN  /\ ~cell.nan
          /\ Len(cell.frac) = 3
          /\ \A d \in 1..3 : cell.frac[d] \in 0..9

\* C18: when the run has ended normally, the complete record has one entry
\* per accumulated result, in order, with every one of the twelve RunResult
\* fields and the whole per-iteration timing sequence (a NaN mean is
\* written as null); the summary table has one row per accumulated result
\* and no column for the per-iteration timings; and entry k and row k
\* describe the same result of the same list.
RunResultFields ==
  {"adapter", "case", "warmup", "iterations", "timings_ms", "mean", "p50",
   "p95", "p99", "min", "max", "errors"}

C18_RecordCompleteSummaryLossy ==
  pc = "done" =>
    /\ jsonFile.status = "complete"
    /\ csvFile.status = "complete"
    /\ Len(jsonFile.content) = Len(allResults)
    /\ Len(csvFile.content) = Len(allResults) + 1
    /\ \A c \in 1..Len(csvFile.content[1]) :
         csvFile.content[1][c] # "timings_ms"
    /\ \A k \in 1..Len(allResults) :
         LET r     == allResults[k]
             entry == jsonFile.content[k]
             row   == csvFile.content[k + 1]
         IN  /\ DOMAIN entry = RunResultFields
             /\ \A f \in RunResultFields \ {"mean"} : entry[f] = r[f]
             /\ Len(entry.timings_ms) = r.iterations
             /\ IF IsNaN(r.mean) THEN entry.mean = "null"
                ELSE entry.mean = r.mean
             /\ Len(row) = Len(csvFile.content[1])
             /\ row[1] = entry.adapter
             /\ row[2] = entry.case
             /\ row[3] = entry.iterations
             /\ row[10] = entry.errors

\* Both artifacts written from two results, the first with two samples in
\* descending order.
C18_Witness ==
  /\ pc = "done"
  /\ Len(jsonFile.content) = 2
  /\ jsonFile.content[1].timings_ms = <<1, 0>>
  /\ Len(csvFile.content) = 3

\* C19: the artifacts are complete, self-consistent snapshots.  In every
\* final state, also after a failed write, no artifact is partially
\* written, and either neither artifact exists or both exist, complete and
\* written from the same result list.
Final == pc \in {"done", "exited"}

C19_ArtifactsAtomicAndPaired ==
  Final =>
    /\ jsonFile.status # "partial"
    /\ csvFile.status # "partial"
    /\ \/ jsonFile = NoFile /\ csvFile = NoFile
       \/ /\ jsonFile = WrittenFile(jsonStringify(allResults))
          /\ csvFile = WrittenFile(toCsv(allResults))

\* The memory of the process, allResults included, exists as long as the
\* process has not ended: process.exit(1) in main().catch ends it, as
\* does the return of main.
ProcessAlive == ~Final

\* C20: a failed artifact write ends the run as failed but keeps the
\* accumulated results in memory: after the failure the result list is
\* still held by a live process, so that the write can be tried again on
\* the same data.
C20_ResultsKeptAfterWriteFailure ==
  err = "write" =>
    /\ pc # "done"
    /\ ProcessAlive
    /\ Len(allResults) = Len(adapterNames) * Len(caseNames)

\* C21: every runCase invocation creates a new, empty context before setup
\* and keeps that one context for setup, the warmup and measured
\* invocations and teardown.  On entering a run the context is an object
\* not used by any earlier run (the identities only grow) and holds no
\* entry; while the run lasts the object stays the same, and entries are
\* written to it only by the setup of that run.
C21_FreshContextPerRun ==
  [][ /\ ctx'.id >= ctx.id
      /\ pc = "caseLoop" /\ pc' \in {"awaitSetup", "warmupLoop"} =>
           ctx'.id > ctx.id /\ ctx'.store = {}
      /\ pc # "caseLoop" => ctx'.id = ctx.id
      /\ ctx'.id = ctx.id /\ ctx'.store # ctx.store => pc = "awaitSetup" ]_vars

\* The second run of a process, measuring a case without setup, after the
\* setup of the first run has written userId to its own context.
C21_Witness ==
  /\ pc = "awaitRun"
  /\ Len(allResults) = 1
  /\ allResults[1].case = "findUserById"
  /\ caseNames[ci] = "findUserByEmail"
  /\ ctx = [id |-> 2, store |-> {}]

\* C22: execution is strictly sequential.  At every point of a run at most
\* one adapter operation called by the harness (setup, a warmup or measured
\* invocation, teardown, close) has not yet settled, and while one is
\* pending the harness is suspended at the await of that call; so a call
\* is only issued when the previous one has settled.
AwaitPositions ==
  {"awaitSetup", "awaitWarmup", "awaitRun", "awaitTeardown", "awaitClose"}

C22_OneOperationInFlight ==
  /\ inFlight \in {0, 1}
  /\ inFlight = 1 <=> pc \in AwaitPositions

\* A measured invocation pending after two earlier operations of the
\* process have settled.
C22_Witness ==
  /\ pc = "awaitRun"
  /\ inFlight = 1
  /\ opsTotal >= 3

\* C23: every fatal error ends the process with a non-zero completion
\* status, and a failure of a warmup or measured invocation never does.  A
\* process that has ended after being given a name that is not registered,
\* or after a setup failure or a failed artifact write, has ended with a
\* status other than 0; and a process that ended with such a status was
\* given an unknown name or met an exception outside the invocations.
C23_FatalErrorsExitNonZero ==
  Final =>
    /\ HasUnknownName \/ err \in {"setup", "write"} =>
         pc = "exited" /\ exitCode # 0
    /\ exitCode # 0 => HasUnknownName \/ err \notin {"none", "warmup", "run"}

\* C24: in a runCase invocation that returns, the lifecycle calls come in
\* the order setup, warmup invocations, measured invocations, teardown.
\* While the run lasts, a warmup or measured invocation is only made after
\* the one setup call of a case that defines setup, a measured invocation
\* only after all warmup invocations, and teardown only after all measured
\* ones; and when runCase is about to return, the operation has been
\* invoked warmup times in the warmup phase and iterations times in the
\* measured phase, setup once if defined, teardown once if defined.
C24_LifecycleOrder ==
  InRunCase =>
    /\ calls.warmup + calls.run > 0 => calls.setup = (IF bench.setup THEN 1 ELSE 0)
    /\ calls.run > 0 => calls.warmup = warmup
    /\ calls.teardown > 0 => calls.run = iterations
    /\ pc = "return" =>
         /\ calls.setup = (IF bench.setup THEN 1 ELSE 0)
         /\ calls.warmup = warmup
         /\ calls.run = iterations
         /\ calls.teardown = (IF bench.teardown THEN 1 ELSE 0)

\* C25: the harness has no timeout.  If every operation that is called
\* settles, the run terminates (main returns or the process exits); and
\* once an operation that never settles is awaited, the run takes no
\* further step: it stays at that await, with no later call issued, the
\* adapter not closed unless the pending call is close() itself, and no
\* artifact written.
C25_NoTimeout ==
  /\ <>(Final \/ hung)
  /\ [][~hung]_vars
  /\ [](hung => /\ pc \in AwaitPositions
                /\ inFlight = 1
                /\ pc # "awaitClose" => instances[ai].closeCalls = 0
                /\ jsonFile = NoFile
                /\ csvFile = NoFile)

\* A measured invocation of the second pair that never settles.
C25_Witness ==
  /\ hung
  /\ pc = "awaitRun"
  /\ Len(allResults) = 1
  /\ ~instances[ai].closed

\* C26: createOrderWithItems is atomic.  At every moment the committed rows
\* are either those from before the call or those plus the order, all of
\* its items and its payment; when the call has returned the order, all of
\* them are committed; when it has thrown, none of them is, and the caller
\* has the failure.
WholeOrder ==
  Rows(tx.before.orders + 1, tx.before.items + tx.items, tx.before.payments + 1)

C26_OrderCommittedAtomically ==
  /\ tx.committed \in {tx.before, WholeOrder}
  /\ tx.pc = "returned" => tx.committed = WholeOrder /\ tx.error = "none"
  /\ tx.pc = "thrown" => tx.committed = tx.before /\ tx.error # "none"

\* The payment insert fails after the order and its two items were
\* inserted: nothing of the order is committed.
C26_Witness ==
  /\ tx.pc = "thrown"
  /\ tx.items = 2
  /\ tx.sent = <<"BEGIN", "INSERT orders", "INSERT order_items",
                 "INSERT payments", "ROLLBACK">>
  /\ tx.error = "INSERT payments"
  /\ tx.committed = tx.before

\* A statement with this text was sent in the call.
WasSent(text) == \E k \in 1..Len(tx.sent) : tx.sent[k] = text

\* The client acquired from the pool is released exactly once on every
\* exit path, and never when none was acquired.
ReleasedExactlyOnce ==
  /\ tx.releases <= 1
  /\ tx.releases = 1 => tx.acquired
  /\ tx.pc \in {"returned", "thrown"} =>
       tx.releases = (IF tx.acquired THEN 1 ELSE 0)

\* C30 (amended): the acquired client is released exactly once on every
\* exit path (commit, a failed statement followed by rollback, a failed
\* rollback); ROLLBACK is never issued after a COMMIT that succeeded, and
\* COMMIT and ROLLBACK are both issued only when COMMIT itself failed.
C30_ReleasedOnceRollbackOnlyAfterFailure ==
  /\ ReleasedExactlyOnce
  /\ tx.pc = "returned" => WasSent("COMMIT") /\ ~WasSent("ROLLBACK")
  /\ WasSent("COMMIT") /\ WasSent("ROLLBACK") =>
       /\ tx.error \in {"COMMIT", "ROLLBACK"}
       /\ tx.committed = tx.before
       /\ tx.sent[Len(tx.sent) - 1] = "COMMIT"
       /\ tx.sent[Len(tx.sent)] = "ROLLBACK"

\* C30 as stated: released exactly once, and COMMIT and ROLLBACK are never
\* both issued in the same call.
C30_CommitAndRollbackNeverBoth ==
  /\ ReleasedExactlyOnce
  /\ ~(WasSent("COMMIT") /\ WasSent("ROLLBACK"))

\* COMMIT failed, then the ROLLBACK of the catch block failed too; the
\* client was released once.
C30_Witness ==
  /\ tx.pc = "thrown"
  /\ tx.error = "ROLLBACK"
  /\ WasSent("COMMIT")
  /\ tx.acquired
  /\ tx.releases = 1

C28_CaseMapTruthyIffRegistered ==
  /\ \A k \in 1..Len(cases) : caseMap(cases[k].name) = cases[k]
  /\ pc \notin {"validate", "exited"} =>
       \A k \in 1..Len(caseNames) :
         Truthy(caseMap(caseNames[k])) <=> caseNames[k] \in RegisteredNames
  /\ InRunCase => caseNames[ci] \in RegisteredNames

\* C29: when setup or teardown makes runCase throw, main closes the adapter
\* of that run and stops.  From then on no result is added, no further
\* case is run and no further adapter is constructed, the only steps are
\* the close() call of the finally block and the exit with status 1, and
\* neither artifact is ever written: the results accumulated so far are
\* lost with the process.
StopsAfterFailure ==
  /\ pc' \in {"awaitClose", "exited"}
  /\ allResults' = allResults
  /\ opsTotal' = opsTotal
  /\ Len(instances') = Len(instances)
  /\ jsonFile' = NoFile
  /\ csvFile' = NoFile
  /\ pc' = "exited" =>
       /\ instances'[ai].closeCalls = 1
       /\ instances'[ai].closed
       /\ exitCode' = 1

C29_RunCaseFailureStopsRun ==
  [][(err = "setup" \/ err = "teardown") => StopsAfterFailure]_vars

\* The teardown of the second case fails for the first of two adapters,
\* after the result of the first case was accumulated.
C29_Witness ==
  /\ pc = "exited"
  /\ err = "teardown"
  /\ Len(adapterNames) = 2
  /\ Len(instances) = 1
  /\ instances[1].closed
  /\ Len(allResults) = 1
  /\ jsonFile = NoFile
  /\ csvFile = NoFile

====
